---- MODULE Spec2Model ----
(***************************************************************************)
(* Energy dispatch optimizer of ai-service: run_optimization (single load) *)
(* and run_demand_optimization (five loads), app/api/endpoints.            *)
(*                                                                         *)
(* One behaviour is one run: input handling, profile normalization, model  *)
(* building, the solve, the status check and the aggregation.  The MILP    *)
(* solver is external: its answer is modelled as an assignment of the      *)
(* decision variables, fixed one timestep at a time, that satisfies every  *)
(* constraint the builder added, or as a non-optimal terminal status.      *)
(*                                                                         *)
(* Arithmetic is exact.  Powers are integers in units of 1/PS kW, battery  *)
(* energy in units of 1/(BessScale*PS) kWh, hydrogen in units of           *)
(* 1/(H2Scale*PS) kg, fuel in units of 1/(FuelScale*PS) litres.            *)
(***************************************************************************)
EXTENDS Integers, Sequences, FiniteSets, TLC

\* ------------------------------------------------------------------ bounds
\* Largest num_days a request of the model carries.
MaxDays == 2
\* Number of candidate power levels above zero the solver may pick for a
\* battery or hydrogen flow.
MaxUnits == 1
\* Clients that post an optimization request to the serving process.
MaxClients == 2
\* Telemetry messages the websocket handler sends.
MaxTicks == 3
\* Time units model.solve() takes.
SolveTime == 2

\* ------------------------------------------------------- program constants
HoursPerDay == 24
MinProfileLen == 24
MinDays == 1
MaxNumDays == 30
DefaultResolution == 30
MinGridConnection == 100
MinBatteryWh == 1000
NumLoads == 5

LpStatusOptimal == 1
LpStatusNotSolved == 0
LpStatusInfeasible == -1
LpStatusUnbounded == -2
LpStatusUndefined == -3

\* pulp.LpStatus, the dictionary the error message is read from.
LpStatus(s) ==
    CASE s = 1 -> "Optimal"
      [] s = 0 -> "Not Solved"
      [] s = -1 -> "Infeasible"
      [] s = -2 -> "Unbounded"
      [] s = -3 -> "Undefined"
      [] OTHER -> "Unknown status"

\* ------------------------------------------------------------ arithmetic
Max(a, b) == IF a >= b THEN a ELSE b
Min(a, b) == IF a <= b THEN a ELSE b
Abs(a) == IF a >= 0 THEN a ELSE -a

RECURSIVE GCD(_, _)
GCD(a, b) == IF b = 0 THEN Abs(a) ELSE GCD(b, a % b)

LCM(a, b) == (a * b) \div GCD(a, b)

\* --------------------------------------------------------- input series
\* A supplied series is described by its length and its values:
\* value(i) = base + swing * HourShape(i).  len = -1 stands for a series
\* that was not supplied (solar_profile_24h = None, or a missing load key).
NoSeries == [len |-> -1, base |-> 0, swing |-> 0]

HourShape(i) == IF i % 24 < 12 THEN i % 24 ELSE 24 - (i % 24)

BaseAt(d, i) == d.base + d.swing * HourShape(i)

\* The three built-in irradiance shapes, in percent of the PV capacity.
solar_profile_sunny ==
    <<0, 0, 0, 0, 0, 0, 5, 20, 40, 60, 80, 90,
      100, 95, 85, 70, 50, 25, 5, 0, 0, 0, 0, 0>>
solar_profile_cloudy ==
    <<0, 0, 0, 0, 0, 0, 3, 15, 30, 45, 60, 65,
      70, 68, 60, 50, 35, 18, 3, 0, 0, 0, 0, 0>>
solar_profile_rainy ==
    <<0, 0, 0, 0, 0, 0, 1, 5, 10, 15, 20, 25,
      30, 25, 20, 15, 10, 5, 1, 0, 0, 0, 0, 0>>

\* Solar fractions are carried in percent.
SolarPercent == 100

\* A base series handed to the normalizer: either a supplied series
\* (kind "given") or one of the built-in solar shapes.
Given(d) == [kind |-> "given", d |-> d]
Builtin(w) == [kind |-> w, d |-> NoSeries]

SrcLen(s) == IF s.kind = "given" THEN s.d.len ELSE HoursPerDay

SrcAt(s, i) ==
    CASE s.kind = "given" -> BaseAt(s.d, i)
      [] s.kind = "rainy" -> solar_profile_rainy[i + 1]
      [] s.kind = "cloudy" -> solar_profile_cloudy[i + 1]
      [] OTHER -> solar_profile_sunny[i + 1]

\* ------------------------------------------------------ upsample_profile
\* np.linspace(0, n-1, n*steps_per_hour): point k of one day lies at
\* k*(n-1)/(n*steps_per_hour - 1).  np.interp is linear between the hour
\* marks.  The value is returned as a numerator over UpsampleDen.
UpsampleDen(n, steps_per_hour) == n * steps_per_hour - 1

UpsampleLen(n, steps_per_hour, num_days) == (n * steps_per_hour) * num_days

UpsampleNum(s, steps_per_hour, k) ==
    LET n == SrcLen(s)
        D == UpsampleDen(n, steps_per_hour)
        kk == k % (n * steps_per_hour)
        pos == kk * (n - 1)
        i == pos \div D
        r == pos % D
    IN  IF i >= n - 1
        THEN SrcAt(s, n - 1) * D
        ELSE SrcAt(s, i) * D + r * (SrcAt(s, i + 1) - SrcAt(s, i))

\* A normalized series: the base series and whether it was resampled.
Profile(s, resampled, steps_per_hour, num_days) ==
    [src |-> s, resampled |-> resampled, sph |-> steps_per_hour, days |-> num_days]

NoProfile == Profile(Builtin("none"), FALSE, 1, 1)

ProfLen(p) ==
    IF p.resampled THEN UpsampleLen(SrcLen(p.src), p.sph, p.days)
    ELSE SrcLen(p.src)

ProfDen(p) == IF p.resampled THEN UpsampleDen(SrcLen(p.src), p.sph) ELSE 1

ProfNum(p, t) ==
    IF p.resampled THEN UpsampleNum(p.src, p.sph, t) ELSE SrcAt(p.src, t)

SetMax(S) == CHOOSE m \in S : \A e \in S : e <= m

\* The largest g that divides den and every numerator in nums.
CommonDivisor(den, nums) ==
    SetMax({g \in 1..den : den % g = 0 /\ \A m \in nums : m % g = 0})

\* The denominator left once the first n values are reduced together.
ReducedDen(p, n) ==
    ProfDen(p) \div CommonDivisor(ProfDen(p), {ProfNum(p, k) : k \in 0..(n - 1)})

\* ------------------------------------------------------------- requests
\* Scalar inputs are integers: kW, Wh, kg, currency per unit, and the
\* fuel-cell efficiency in percent.
BaseRequest(variant) ==
    [variant |-> variant,
     num_days |-> 1,
     time_resolution_minutes |-> 60,
     loads |-> [i \in 1..(IF variant = "multi" THEN NumLoads ELSE 1) |->
                   [len |-> 24, base |-> 100, swing |-> 0]],
     price |-> [len |-> 24, base |-> 5, swing |-> 0],
     solar |-> NoSeries,
     weather |-> "sunny",
     objective_type |-> "cost",
     grid_connection |-> 2000,
     solar_connection |-> 0,
     battery_capacity |-> 0,
     diesel_capacity |-> 0,
     fuel_price |-> 95,
     fuel_price_kind |-> "number",
     pv_energy_cost |-> 3,
     load_curtail_cost |-> 50,
     battery_om_cost |-> 6,
     electrolyzer_capacity |-> 0,
     fuel_cell_capacity |-> 0,
     h2_tank_capacity |-> 20,
     fuel_cell_efficiency_percent |-> 60,
     fuel_cell_om_cost |-> 2,
     electrolyzer_om_cost |-> 1,
     curtail_penalty |-> <<18, 10, 8>>]

Variants == {"single", "multi"}

\* Requests that differ in the lengths of the supplied load and price
\* series (the first stream, in the multi-load variant).
LengthRequests ==
    {[BaseRequest(v) EXCEPT
         !.time_resolution_minutes = res,
         !.loads = [i \in DOMAIN @ |->
                       [len |-> IF i = 1 \/ v = "single" THEN ll ELSE 24,
                        base |-> 100, swing |-> 0]],
         !.price = [len |-> pl, base |-> 5, swing |-> 0]] :
        v \in Variants, res \in {30, 60}, ll \in {23, 24, 48}, pl \in {23, 24, 48}}

\* Single-load requests that minimise emissions.
Co2Requests ==
    {[BaseRequest("single") EXCEPT
         !.time_resolution_minutes = 30,
         !.loads = [i \in DOMAIN @ |-> [len |-> 48, base |-> 100, swing |-> 0]],
         !.price = [len |-> pl, base |-> 5, swing |-> 0],
         !.objective_type = "co2"] :
        pl \in {24, 48}}

\* Single-load requests whose objective_type is spelled in other ways.
ObjectiveRequests ==
    {[BaseRequest("single") EXCEPT
         !.time_resolution_minutes = 30,
         !.loads = [i \in DOMAIN @ |-> [len |-> 48, base |-> 100, swing |-> 0]],
         !.price = [len |-> 48, base |-> 5, swing |-> 0],
         !.objective_type = o] :
        o \in {"CO2", "Cost", "emissions"}}

\* Requests that differ in the shape of the load and in the solar input.
ShapeRequests ==
    {[BaseRequest(v) EXCEPT
         !.time_resolution_minutes = res,
         !.loads = [i \in DOMAIN @ |-> [len |-> 24, base |-> 100, swing |-> sw]],
         !.solar_connection = 100] :
        v \in Variants, res \in {30, 60}, sw \in {0, 10}}
    \cup
    {[BaseRequest(v) EXCEPT
         !.solar = [len |-> sl, base |-> 50, swing |-> 0],
         !.weather = "rainy",
         !.solar_connection = 100] :
        v \in Variants, sl \in {-1, 23, 24}}

\* Multi-load requests with a stream missing or short.
StreamRequests ==
    {[BaseRequest("multi") EXCEPT
         !.loads = [i \in 1..n |->
                       [len |-> IF i = short THEN 23 ELSE 24,
                        base |-> 100, swing |-> 0]]] :
        n \in {0, 4, 5}, short \in 0..NumLoads}

\* A site with one subsystem installed.  The multi-load site has demand
\* on streams 1..3 only.
Site(v, kind, days, res) ==
    [BaseRequest(v) EXCEPT
         !.num_days = days,
         !.time_resolution_minutes = res,
         !.loads = [i \in DOMAIN @ |->
                       [len |-> 24,
                        base |-> IF v = "single" THEN 100 ELSE IF i <= 3 THEN 50 ELSE 0,
                        swing |-> 0]],
         !.battery_capacity = IF kind = "battery" THEN 1600000 ELSE 0,
         !.diesel_capacity = IF kind = "diesel" THEN 200 ELSE 0,
         !.solar_connection = IF kind = "pv" THEN 1000 ELSE 0,
         !.electrolyzer_capacity = IF kind = "hydrogen" THEN 1000 ELSE 0,
         !.fuel_cell_capacity = IF kind = "hydrogen" THEN 100 ELSE 0]

SiteKinds == {"battery", "diesel", "pv", "hydrogen"}

DispatchRequests ==
    {Site(v, kind, 1, 60) : v \in Variants, kind \in SiteKinds}
    \cup {Site(v, "diesel", 1, 30) : v \in Variants}

\* Horizons of more than one day.
DayRequests ==
    {Site(v, "battery", days, 60) : v \in Variants, days \in 1..MaxDays}

\* Sites supplied with a grid connection of 0 kW and nothing else installed.
ZeroGridRequests ==
    {[Site(v, "none", 1, 60) EXCEPT !.grid_connection = 0] : v \in Variants}

\* Requests whose params["fuel_price"] is not a number: a text that
\* float() cannot parse, or no entry at all.
RawScalarRequests ==
    {[BaseRequest(v) EXCEPT !.fuel_price_kind = k] :
        v \in Variants, k \in {"text", "absent"}}

\* Requests with a resolution outside {15, 30, 60} and a day count at
\* or below the lower limit.
ResolutionRequests ==
    {[BaseRequest(v) EXCEPT !.time_resolution_minutes = res, !.num_days = d] :
        v \in Variants, res \in {20, 50}, d \in {0, 1}}

\* A single-load site that minimises emissions and needs its diesel
\* generator: 200 kW of load on a 100 kW grid connection.
Co2DieselRequests ==
    {[Site("single", "diesel", 1, 60) EXCEPT
         !.loads = [i \in DOMAIN @ |-> [len |-> 24, base |-> 200, swing |-> 0]],
         !.grid_connection = 100,
         !.diesel_capacity = 100,
         !.objective_type = "co2"]}

\* Grid connections compared with one another.
GridSizes == {100, 200, 2000}

\* Sites with a PV plant larger than the demand, no deferrable demand,
\* and grid connections of different sizes.
GridSizeRequests ==
    {[Site(v, "pv", 1, 60) EXCEPT
         !.loads = [i \in DOMAIN @ |->
                       [len |-> 24,
                        base |-> IF v = "single" THEN 100
                                 ELSE IF i <= 2 THEN 50 ELSE 0,
                        swing |-> 0]],
         !.grid_connection = g] :
        v \in Variants, g \in GridSizes}

\* A site whose tank and fuel cell are large enough for the electrolyzer
\* to run at full power for a step and for the fuel cell to burn that
\* hydrogen again in one step.
ElectrolyzerRequests ==
    {[Site("single", "hydrogen", 1, 60) EXCEPT
          !.h2_tank_capacity = 100, !.fuel_cell_capacity = 500]}

\* Single-load sites on a tariff of 0 per kWh.
FreePriceRequests ==
    {[Site("single", "none", 1, 60) EXCEPT
          !.price = [len |-> 24, base |-> 0, swing |-> 0],
          !.objective_type = o] :
        o \in {"cost", "co2"}}

\* Multi-load sites whose grid connection is too small for the demand:
\* five streams of 50 kW on 150 kW (one deferrable stream can be served),
\* and five streams of 100 kW on 100 kW (the critical streams cannot).
ScarcityRequests ==
    {[Site("multi", "none", 1, 60) EXCEPT
          !.loads = [i \in DOMAIN @ |-> [len |-> 24, base |-> s[1], swing |-> 0]],
          !.grid_connection = s[2]] :
        s \in {<<50, 150>>, <<100, 100>>}}

\* Sites without a hydrogen tank (h2_tank_capacity supplied as 0).
ZeroTankRequests ==
    {[Site(v, "none", 1, 60) EXCEPT !.h2_tank_capacity = 0] : v \in Variants}

Requests ==
    LengthRequests \cup Co2Requests \cup ShapeRequests \cup StreamRequests
        \cup DispatchRequests \cup DayRequests \cup ZeroGridRequests
        \cup ZeroTankRequests \cup RawScalarRequests \cup ResolutionRequests
        \cup GridSizeRequests \cup ObjectiveRequests \cup Co2DieselRequests
        \cup ElectrolyzerRequests \cup FreePriceRequests
        \cup ScarcityRequests

\* ---------------------------------------------------- parameter handling
\* Lines 42-66: the clamps of the scalar inputs.
num_days_of(r) == Max(MinDays, Min(MaxNumDays, r.num_days))

time_resolution_of(r) ==
    IF r.time_resolution_minutes \in {15, 30, 60}
    THEN r.time_resolution_minutes ELSE DefaultResolution

steps_per_hour_of(r) == 60 \div time_resolution_of(r)

time_horizon_of(r) == num_days_of(r) * HoursPerDay * steps_per_hour_of(r)

\* step_size in quarter hours: step_size = StepQ / 4.
StepQ(r) == time_resolution_of(r) \div 15

grid_max_power_of(r) == Max(MinGridConnection, r.grid_connection)

\* battery_capacity_wh: at least MinBatteryWh.
battery_wh_of(r) == Max(MinBatteryWh, r.battery_capacity)

\* str.lower() on the spellings the requests use.
lower(str) ==
    CASE str = "CO2" -> "co2"
      [] str = "Cost" -> "cost"
      [] OTHER -> str

\* Line 57: objective_type = str(params.get("objective_type", "cost")).lower()
objective_type_of(r) == lower(r.objective_type)

\* Lines 270-297: the objective the model is given.  The multi-load
\* builder knows the cost objective only (demand_optimization.py 287-302).
MinimisedObjective(r) ==
    IF r.variant = "multi" THEN "cost"
    ELSE IF objective_type_of(r) = "co2" THEN "co2"
    ELSE "cost"

\* ------------------------------------------------------------ validation
\* Lines 68-72 (single) and 83-90 (multi): the first failing check, or
\* "ok".  A series that was not supplied has no length: len() raises
\* TypeError, which the same except clause turns into the same error.
\* Faulty variant of the single-load validation: the price series is
\* not looked at.
ValidateLoadOnly(r) ==
    IF Len(r.loads) < 1 \/ r.loads[1].len < MinProfileLen
    THEN "Load profile must contain at least 24 data points"
    ELSE "ok"

ValidateSingle(r) ==
    IF Len(r.loads) < 1 \/ r.loads[1].len < MinProfileLen
    THEN "Load profile must contain at least 24 data points"
    ELSE IF r.price.len < MinProfileLen
    THEN "Price profile must contain at least 24 data points"
    ELSE "ok"

ValidateMulti(r) ==
    IF Len(r.loads) < NumLoads
    THEN "Must provide 5 load profiles"
    ELSE IF \E i \in 1..NumLoads : r.loads[i].len < MinProfileLen
    THEN "Load profile i must contain at least 24 data points"
    ELSE IF r.price.len < MinProfileLen
    THEN "Price profile must contain at least 24 data points"
    ELSE "ok"

\* Line 52 / 53: float(params["fuel_price"]) inside the same try block,
\* before the series are looked at.  float() of a text raises ValueError,
\* a missing key raises KeyError.
ScalarResult(r) ==
    IF r.fuel_price_kind = "text" THEN "could not convert string to float"
    ELSE IF r.fuel_price_kind = "absent" THEN "'fuel_price'"
    ELSE "ok"

ValidationResult(r) ==
    IF ScalarResult(r) # "ok" THEN ScalarResult(r)
    ELSE IF r.variant = "single" THEN ValidateSingle(r) ELSE ValidateMulti(r)

\* --------------------------------------------------------- normalization
\* Lines 106-116: the solar base series.
solar_profile_base_of(r) ==
    IF r.solar.len >= MinProfileLen THEN Given(r.solar)
    ELSE IF r.weather = "rainy" THEN Builtin("rainy")
    ELSE IF r.weather = "cloudy" THEN Builtin("cloudy")
    ELSE Builtin("sunny")

\* A series is passed through when `same` holds, resampled otherwise.
Normalized(r, s, same) ==
    Profile(s, ~same, steps_per_hour_of(r), num_days_of(r))

\* optimization.py 118-128: load and price are both passed through when
\* the LOAD has the expected length, both resampled otherwise.
\* demand_optimization.py 131-145: each series is decided on its own.
load_profile_of(r, i) ==
    Normalized(r, Given(r.loads[i]), r.loads[i].len = time_horizon_of(r))

price_profile_of(r) ==
    IF r.variant = "single"
    THEN Normalized(r, Given(r.price), r.loads[1].len = time_horizon_of(r))
    ELSE Normalized(r, Given(r.price), r.price.len = time_horizon_of(r))

solar_profile_of(r) ==
    LET b == solar_profile_base_of(r)
    IN  Normalized(r, b, SrcLen(b) = time_horizon_of(r))


\* ------------------------------------------------- derived model values
\* Lines 136-167.  battery_storage_energy in kWh (requests carry whole
\* kWh), battery_power = 0.5 * battery_storage_energy.
battery_storage_energy_of(r) == battery_wh_of(r) \div 1000

\* 0.95 = EffNum / EffDen, both ways.
EffNum == 19
EffDen == 20
\* Battery energy unit: 1 / (BessScale * PS) kWh.
BessScale == 4 * EffNum * EffDen

\* fuel_slope = 0.18 = FuelSlopeNum / FuelScale, fuel_intercept = 48.
FuelSlopeNum == 9
FuelScale == 50
fuel_intercept == 48

\* H2_LHV = 33.3 = LhvNum / 10; electrolyzer break point and efficiencies
\* in percent.
LhvNum == 333
P_break1_percent == 20
eff_at_break1 == 80
eff_at_break2 == 75
\* Hydrogen produced is carried in units of 1 / (HProdScale * PS) kg per
\* hour: slope_s1 = Slope1Num / HProdScale, slope_s2 = Slope2Num / HProdScale.
HProdScale == 8 * LhvNum
Slope1Num(r) ==
    IF r.electrolyzer_capacity > 0
    THEN (eff_at_break1 * 10 * HProdScale) \div (100 * LhvNum) ELSE 0
Slope2Num(r) ==
    IF r.electrolyzer_capacity > 0
    THEN ((eff_at_break2 * 100 - eff_at_break1 * P_break1_percent) * 10 * HProdScale)
             \div ((100 - P_break1_percent) * 100 * LhvNum)
    ELSE 0
\* fc_conversion_rate = 1 / (H2_LHV * efficiency) = FcRateNum / (HProdScale * e)
\* for an efficiency of e percent.
FcRateNum == (1000 * HProdScale) \div LhvNum
\* The efficiency in percent and FcRateNum, reduced by their gcd.
EffRed(r) == r.fuel_cell_efficiency_percent \div GCD(r.fuel_cell_efficiency_percent, FcRateNum)
FcRed(r) == FcRateNum \div GCD(r.fuel_cell_efficiency_percent, FcRateNum)
\* Hydrogen level unit: 1 / (H2Scale(r) * PS) kg.
H2Scale(r) == 4 * HProdScale * EffRed(r)

\* ------------------------------------------------------------------ state
VARIABLES
    req,            \* the request: params and the supplied series
    pc,             \* position of the run
    load_profiles,  \* normalized load series, one per stream
    price_profile,  \* normalized price series
    solar_profile,  \* normalized solar fraction series
    PS,             \* power scale of the built model
    M_curt,         \* big-M of the curtailment indicator (multi-load)
    PriceDen,       \* common denominator of the price series
    model_built,    \* an LpProblem was constructed
    solve_calls,    \* number of model.solve() calls
    t,              \* timestep the solver is assigning
    E_battery,      \* E_battery[t] of the assignment
    E_h2,           \* E_h2[t] of the assignment
    x,              \* the other decision variables at t, or NoRow
    status,         \* model.status
    result,         \* what the run returned, or NoResult
    error,          \* the exception the run raised, or NoError
    responses,      \* the JSON responses the endpoint returned for the run
    handler,        \* per client: position of its POST /optimize call
    running,        \* client whose call holds the event loop; 0 when idle
    solve_left,     \* time units until the running model.solve() returns
    ws_timer,       \* asyncio.sleep(2) of websocket_handler
    event_counter,  \* event_counter of websocket_handler
    environ,        \* os.environ: COIN_CMD
    rcParams,       \* matplotlib's rcParams
    ready_at_begin, \* per client: another task was ready when its call began
    served_during   \* per client: a task was served while its call ran

\* The normalized series, and the scales fixed when the model is built.
series == <<load_profiles, price_profile, solar_profile>>
scales == <<PS, M_curt, PriceDen>>

\* The serving process: event loop, websocket task, process-wide state.
serving == <<handler, running, solve_left, ws_timer, event_counter,
             environ, rcParams, ready_at_begin, served_during>>

\* One run of the optimizer.
run == <<req, pc, series, scales,
         model_built, solve_calls, t, E_battery, E_h2, x, status, result, error,
         responses>>

vars == <<run, serving>>

Clients == 1..MaxClients

NoRow == [assigned |-> FALSE]
NoResult == [returned |-> FALSE]
NoError == [raised |-> FALSE]
\* model.status before any solve.
NoStatus == LpStatusUndefined - 1

Init ==
    /\ req \in Requests
    /\ pc = "start"
    /\ load_profiles = <<>>
    /\ price_profile = NoProfile
    /\ solar_profile = NoProfile
    /\ PS = 0
    /\ M_curt = 0
    /\ PriceDen = 1
    /\ model_built = FALSE
    /\ solve_calls = 0
    /\ t = 0
    /\ E_battery = 0
    /\ E_h2 = 0
    /\ x = NoRow
    /\ status = NoStatus
    /\ result = NoResult
    /\ error = NoError
    /\ responses = <<>>
    /\ handler = [c \in Clients |-> "absent"]
    /\ running = 0
    /\ solve_left = 0
    /\ ws_timer = "sleeping"
    /\ event_counter = 0
    /\ environ = "unset"
    /\ rcParams = "default"
    /\ ready_at_begin = [c \in Clients |-> FALSE]
    /\ served_during = [c \in Clients |-> FALSE]

ValueError(msg, st) ==
    [raised |-> TRUE, type |-> "ValueError", message |-> msg, status_string |-> st]

\* Lines 41-75 / 42-93: the try block.  Either it raises "Invalid input
\* parameters: ..." or the run goes on.
Validate ==
    /\ pc = "start"
    /\ IF ValidationResult(req) = "ok"
       THEN /\ pc' = "validated"
            /\ error' = error
       ELSE /\ pc' = "failed"
            /\ error' = ValueError(<<"Invalid input parameters: ",
                                     ValidationResult(req)>>, "")
    /\ UNCHANGED <<serving, responses, req, series, scales,
                   model_built, solve_calls, t, E_battery, E_h2, x, status, result>>

\* Lines 94-134 / 101-150: horizon and normalized series.
Normalize ==
    /\ pc = "validated"
    /\ load_profiles' = [i \in DOMAIN req.loads |-> load_profile_of(req, i)]
    /\ price_profile' = price_profile_of(req)
    /\ solar_profile' = solar_profile_of(req)
    /\ pc' = "normalized"
    /\ UNCHANGED <<serving, responses, req, scales, model_built, solve_calls, t, E_battery, E_h2, x,
                   status, result, error>>


\* ------------------------------------------------------ the built model
\* Values of the normalized series at step tt, in units of 1/PS.
LoadAt(i, tt) ==
    (ProfNum(load_profiles[i], tt) * PS) \div ProfDen(load_profiles[i])

\* Line 210 / 245: solar_available = solar_profile[t] * solar_capacity.
SolarAvailable(tt) ==
    (ProfNum(solar_profile, tt) * Max(0, req.solar_connection) * PS)
        \div (ProfDen(solar_profile) * SolarPercent)

\* The denominator of the solar_available values at steps 0..n-1.
SolarDen(p, n) ==
    (ProfDen(p) * SolarPercent)
        \div CommonDivisor(ProfDen(p) * SolarPercent,
                 {ProfNum(p, k) * Max(0, req.solar_connection) : k \in 0..(n - 1)})

RECURSIVE LoadsDen(_, _)
LoadsDen(ps, n) ==
    IF n = 0 THEN 1
    ELSE LCM(LoadsDen(ps, n - 1), ReducedDen(ps[n], ProfLen(ps[n])))

\* The common denominator of every load and solar value the model uses.
PowerScale ==
    LCM(LoadsDen(load_profiles, Len(load_profiles)),
        SolarDen(solar_profile, time_horizon_of(req)))

ProfMaxNum(p, n) == SetMax({ProfNum(p, k) : k \in 0..(n - 1)})

critical_loads == {1, 2}
dr_loads == {3, 4, 5}
load_ids == critical_loads \cup dr_loads

\* Line 216: big-M of the curtailment indicator, in units of 1/ps.
BigMCurt(ps) ==
    IF req.variant = "multi"
    THEN ((ProfMaxNum(load_profiles[3], ProfLen(load_profiles[3])) * ps)
              \div ProfDen(load_profiles[3]))
         + ((ProfMaxNum(load_profiles[4], ProfLen(load_profiles[4])) * ps)
              \div ProfDen(load_profiles[4]))
         + ((ProfMaxNum(load_profiles[5], ProfLen(load_profiles[5])) * ps)
              \div ProfDen(load_profiles[5]))
    ELSE 0

\* The builder indexes every series at t in range(time_horizon): a series
\* shorter than that raises IndexError.  The price series is indexed by
\* the cost objective (line 288 / 291) only.
BuilderIndexError ==
    \/ \E i \in DOMAIN load_profiles : ProfLen(load_profiles[i]) < time_horizon_of(req)
    \/ ProfLen(solar_profile) < time_horizon_of(req)
    \/ /\ MinimisedObjective(req) = "cost"
       /\ ProfLen(price_profile) < time_horizon_of(req)

BuildModel ==
    /\ pc = "normalized"
    /\ model_built' = TRUE
    /\ IF BuilderIndexError
       THEN /\ pc' = "crashed"
            /\ error' = [raised |-> TRUE, type |-> "IndexError",
                         message |-> <<"list index out of range">>,
                         status_string |-> ""]
            /\ PS' = PS
            /\ M_curt' = M_curt
            /\ PriceDen' = PriceDen
       ELSE /\ pc' = "built"
            /\ PS' = PowerScale
            /\ M_curt' = BigMCurt(PowerScale)
            /\ PriceDen' = ReducedDen(price_profile, ProfLen(price_profile))
            /\ error' = error
    /\ UNCHANGED <<serving, responses, req, series, solve_calls,
                   t, E_battery, E_h2, x, status, result>>

\* --------------------------------------------------- storage dynamics
\* Lines 220 / 235: the levels fixed at t = 0.
\* Faulty variant of the initial battery level: the battery starts empty,
\* below its minimum state of charge.
EmptyBattery(r) == 0

initial_battery_level(r) == (battery_storage_energy_of(r) * BessScale * PS) \div 2
initial_h2_level(r) == (Max(0, r.h2_tank_capacity) * H2Scale(r) * PS) \div 2

\* Faulty variant of the battery bounds: the whole capacity is usable.
BatteryWithinCapacity(r, e) ==
    /\ e >= 0
    /\ e <= battery_storage_energy_of(r) * BessScale * PS

\* Lines 181 / 189: variable bounds of E_battery[t] and E_h2[t].
BatteryInBounds(r, e) ==
    /\ e * 10 >= battery_storage_energy_of(r) * BessScale * PS
    /\ e * 10 <= 9 * battery_storage_energy_of(r) * BessScale * PS

H2InBounds(r, e) ==
    /\ e * 10 >= Max(0, r.h2_tank_capacity) * H2Scale(r) * PS
    /\ e * 10 <= 9 * Max(0, r.h2_tank_capacity) * H2Scale(r) * PS

\* Right-hand side of lines 225 and 231:
\* E + step_size * (P_charge * 0.95 - P_discharge / 0.95).
BatteryEnd(r, e, v) ==
    e + StepQ(r) * (EffNum * EffNum * v.P_charge - EffDen * EffDen * v.P_discharge)

\* Right-hand side of lines 246, 249 and 327:
\* E + H_produced * step_size - P_fc * step_size * fc_conversion_rate.
H2End(r, e, v) ==
    e + StepQ(r) * (v.H_produced * EffRed(r) - FcRed(r) * v.P_fc)

\* Faulty variant of the battery's cyclic constraint: it ties the level
\* at the start of the last step, not the level the last step ends with.
CyclicAtLastLevel(r, e, v) == initial_battery_level(r) = e

\* Lines 230-232 and 248-250: the cyclic constraints on the last step.
BatteryCyclic(r, e, v) == initial_battery_level(r) = BatteryEnd(r, e, v)
H2Cyclic(r, e, v) == initial_h2_level(r) = H2End(r, e, v)

\* What the storage constraints ask of the flows v of step tt, given the
\* levels e_b and e_h at tt: E[tt+1] within the bounds of the variable
\* (lines 223-226, 244-247) or, on the last step, the cyclic constraints.
StorageFeasible(r, tt, e_b, e_h, v) ==
    IF tt < time_horizon_of(r) - 1
    THEN /\ BatteryInBounds(r, BatteryEnd(r, e_b, v))
         /\ H2InBounds(r, H2End(r, e_h, v))
    ELSE /\ BatteryCyclic(r, e_b, v)
         /\ H2Cyclic(r, e_h, v)

\* ------------------------------------------- the solver's candidate values
\* The solver may give a variable any value within its bounds; the model
\* lets it choose among these.  A charge of EffDen^2 and a discharge of
\* EffNum^2 move the same energy, so multiples of these can close a cycle.
Divides(d, n) == n % d = 0

UpTo(unit, cap2, div) == {unit * k : k \in 1..MaxUnits} \cap 0..(cap2 \div div)

\* battery_power = 0.5 * battery_storage_energy, so P * 2 <= energy * PS.
ChargeValues(r) ==
    {0} \cup UpTo(EffDen * EffDen * PS, battery_storage_energy_of(r) * PS, 2)
DischargeValues(r) ==
    {0} \cup UpTo(EffNum * EffNum * PS, battery_storage_energy_of(r) * PS, 2)

\* Diesel: off, half the minimum power, the minimum power, full power.
DieselValues(r) ==
    LET c == Max(0, r.diesel_capacity) * PS
    IN  {0, c} \cup (IF Divides(20, c) THEN {c \div 20, c \div 10} ELSE {})

\* Electrolyzer segments: empty or full.
Seg1Values(r) ==
    LET c == Max(0, r.electrolyzer_capacity) * PS * P_break1_percent
    IN  {0} \cup (IF Divides(100, c) THEN {c \div 100} ELSE {})
Seg2Values(r) ==
    LET c == Max(0, r.electrolyzer_capacity) * PS * (100 - P_break1_percent)
    IN  {0} \cup (IF Divides(100, c) THEN {c \div 100} ELSE {})

\* Fuel cell: multiples of the power that burns in one step what a full
\* first segment produces in one step, and of the power that burns what
\* the whole electrolyzer produces in one step.
FuelCellValues(r) ==
    LET c == Max(0, r.electrolyzer_capacity) * PS * P_break1_percent
                 * Slope1Num(r) * r.fuel_cell_efficiency_percent
        f == Max(0, r.electrolyzer_capacity) * PS * r.fuel_cell_efficiency_percent
                 * (P_break1_percent * Slope1Num(r)
                        + (100 - P_break1_percent) * Slope2Num(r))
    IN  {0} \cup (IF c > 0 /\ Divides(100 * FcRateNum, c)
                 THEN UpTo(c \div (100 * FcRateNum),
                           Max(0, r.fuel_cell_capacity) * PS, 1)
                 ELSE {})
            \cup (IF f > 0 /\ Divides(100 * FcRateNum, f)
                  THEN UpTo(f \div (100 * FcRateNum),
                            Max(0, r.fuel_cell_capacity) * PS, 1)
                  ELSE {})

\* Slack above a lower bound: none, or one unit.
FuelSlackValues == {0, FuelScale * PS}
ImportSlackValues == {0, PS}

Binary == {0, 1}

\* --------------------------------------------- per-subsystem constraints
\* Faulty variant of the battery constraints: the flows are bounded but
\* not gated by z_bess.
BatteryUngated(r, z_bess, P_charge, P_discharge) ==
    /\ 0 <= P_charge /\ P_charge * 2 <= battery_storage_energy_of(r) * PS
    /\ 0 <= P_discharge /\ P_discharge * 2 <= battery_storage_energy_of(r) * PS

\* Lines 179-180, 227-228: bounds and no simultaneous charge/discharge.
BatteryConstraints(r, z_bess, P_charge, P_discharge) ==
    /\ 0 <= P_charge /\ P_charge * 2 <= battery_storage_energy_of(r) * PS
    /\ 0 <= P_discharge /\ P_discharge * 2 <= battery_storage_energy_of(r) * PS
    /\ P_charge * 2 <= battery_storage_energy_of(r) * PS * (1 - z_bess)
    /\ P_discharge * 2 <= battery_storage_energy_of(r) * PS * z_bess

\* Faulty variant of the diesel constraints: no minimum power when on.
DieselWithoutMinimum(r, z_diesel, P_diesel) ==
    /\ 0 <= P_diesel /\ P_diesel <= Max(0, r.diesel_capacity) * PS
    /\ P_diesel <= Max(0, r.diesel_capacity) * PS * z_diesel

\* Lines 176, 215-216: diesel_min_power = 0.1 * capacity.
DieselConstraints(r, z_diesel, P_diesel) ==
    /\ 0 <= P_diesel /\ P_diesel <= Max(0, r.diesel_capacity) * PS
    /\ P_diesel * 10 >= Max(0, r.diesel_capacity) * PS * z_diesel
    /\ P_diesel <= Max(0, r.diesel_capacity) * PS * z_diesel

\* Line 217: the least F_diesel the affine envelope allows, in units of
\* 1 / (FuelScale * PS) litres per hour.
FuelLowerBound(z_diesel, P_diesel) ==
    FuelSlopeNum * P_diesel + fuel_intercept * FuelScale * PS * z_diesel

\* Faulty variant of the hydrogen constraints: the second segment may be
\* used while the first is not full.
HydrogenWithoutOrdering(r, z_h2, z_elec_s2, s1, s2, P_fc) ==
    LET cap == Max(0, r.electrolyzer_capacity) * PS
        P_elec == s1 + s2
    IN  /\ 0 <= s1 /\ s1 * 100 <= cap * P_break1_percent
        /\ 0 <= s2 /\ s2 * 100 <= cap * (100 - P_break1_percent)
        /\ 0 <= P_elec /\ P_elec <= cap
        /\ 0 <= P_fc /\ P_fc <= Max(0, r.fuel_cell_capacity) * PS
        /\ s2 * 100 <= cap * (100 - P_break1_percent) * z_elec_s2
        /\ P_fc <= Max(0, r.fuel_cell_capacity) * PS * z_h2
        /\ P_elec <= cap * (1 - z_h2)

\* Lines 187-193, 238-243: electrolyzer segments and the mode flag.
HydrogenConstraints(r, z_h2, z_elec_s2, s1, s2, P_fc) ==
    LET cap == Max(0, r.electrolyzer_capacity) * PS
        P_elec == s1 + s2
    IN  /\ 0 <= s1 /\ s1 * 100 <= cap * P_break1_percent
        /\ 0 <= s2 /\ s2 * 100 <= cap * (100 - P_break1_percent)
        /\ 0 <= P_elec /\ P_elec <= cap
        /\ 0 <= P_fc /\ P_fc <= Max(0, r.fuel_cell_capacity) * PS
        /\ s1 * 100 >= cap * P_break1_percent * z_elec_s2
        /\ s2 * 100 <= cap * (100 - P_break1_percent) * z_elec_s2
        /\ P_fc <= Max(0, r.fuel_cell_capacity) * PS * z_h2
        /\ P_elec <= cap * (1 - z_h2)

\* Line 239: H_produced = s1 * slope_s1 + s2 * slope_s2.
HProduced(r, s1, s2) == s1 * Slope1Num(r) + s2 * Slope2Num(r)

\* The binaries that only gate other variables (z_bess, z_h2, z_elec_s2,
\* z_curt) are not kept in a row: a row holds flows for which some value
\* of the binary meets the constraints.
BatteryChoices(r) ==
    {b \in [P_charge : ChargeValues(r), P_discharge : DischargeValues(r)] :
        \E z_bess \in Binary : BatteryConstraints(r, z_bess, b.P_charge, b.P_discharge)}

DieselChoices(r) ==
    {d \in [z_diesel : Binary, P_diesel : DieselValues(r), slack : FuelSlackValues] :
        DieselConstraints(r, d.z_diesel, d.P_diesel)}

HydrogenChoices(r) ==
    {h \in [s1 : Seg1Values(r), s2 : Seg2Values(r), P_fc : FuelCellValues(r)] :
        \E z_h2 \in Binary, z_elec_s2 \in Binary :
            HydrogenConstraints(r, z_h2, z_elec_s2, h.s1, h.s2, h.P_fc)}

\* The demand of step tt, all streams together.
RECURSIVE TotalLoadFrom(_, _)
TotalLoadFrom(i, tt) ==
    IF i > Len(load_profiles) THEN 0 ELSE LoadAt(i, tt) + TotalLoadFrom(i + 1, tt)

\* Line 211 / 246: P_pv_used + P_solar_curt = solar_available, both >= 0.
\* Candidates: nothing, everything, as much as the demand takes, and as
\* much as the demand and a full export take.
PvChoices(r, tt) ==
    {0, SolarAvailable(tt),
     Min(SolarAvailable(tt), TotalLoadFrom(1, tt)),
     Min(SolarAvailable(tt), TotalLoadFrom(1, tt) + grid_max_power_of(r) * PS)}


\* ------------------------------------------------------ rows of a solution
\* Faulty variant of the power balance: the fuel cell is left out of the
\* supply side.
GridWithoutFuelCell(load_served, P_pv_used, P_diesel, P_discharge, P_fc, P_charge, P_elec) ==
    (load_served + P_charge + P_elec) - (P_pv_used + P_diesel + P_discharge)

\* Lines 200-203 / 238-241, solved for P_grid:
\* supply = P_pv_used + P_diesel + P_discharge + P_grid + P_fc,
\* demand = load_served + P_charge + P_elec, and supply == demand.
GridFromBalance(load_served, P_pv_used, P_diesel, P_discharge, P_fc, P_charge, P_elec) ==
    (load_served + P_charge + P_elec) - (P_pv_used + P_diesel + P_discharge + P_fc)

\* Line 174 / 190: bounds of P_grid.
GridInBounds(r, g) ==
    /\ -(grid_max_power_of(r) * PS) <= g
    /\ g <= grid_max_power_of(r) * PS

\* Faulty variant of the lockout: the indicator is set, the export bound
\* is missing.
LockoutIndicatorOnly(r, z_curt, total_curt, g) == total_curt <= M_curt * z_curt

\* Lines 232-234: the curtailment indicator and the export lockout.
ExportLockout(r, z_curt, total_curt, g) ==
    /\ total_curt <= M_curt * z_curt
    /\ g >= -(grid_max_power_of(r) * PS) * (1 - z_curt)

\* optimization.py 257-265: kg CO2 per kWh, in grams.
co2_grid == 716
co2_diesel == 900
co2_battery == 29
co2_solar == 46
co2_fuel_cell == 1
co2_electrolyzer == 0
co2_load_curt_penalty == 5000

\* optimization.py 271-283: the term of step tt in the emissions
\* objective, in units of 1 / (4 * 1000 * PS) kg.
Co2Term(r, v) ==
    StepQ(r) * (co2_grid * v.P_grid_import + co2_diesel * v.P_diesel
                + co2_battery * v.P_discharge + co2_solar * v.P_pv_used
                + co2_fuel_cell * v.P_fc + co2_electrolyzer * v.P_elec)
    + StepQ(r) * co2_load_curt_penalty * v.P_load_curt

\* Cost terms are carried in units of
\* 1 / (4 * FuelScale * PS * PriceDen) of the currency: price_profile[tt]
\* is PriceNum(tt) / PriceDen.
PriceNum(tt) == (ProfNum(price_profile, tt) * PriceDen) \div ProfDen(price_profile)

\* Faulty variant of the cost objective: curtailed load costs nothing.
CostTermCurtailFree(r, tt, v) ==
    StepQ(r) * PriceNum(tt) * FuelScale * v.P_grid_import
    + StepQ(r) * Max(0, r.fuel_price) * PriceDen * v.F_diesel
    + StepQ(r) * Max(0, r.pv_energy_cost) * PriceDen * FuelScale * v.P_pv_used
    + StepQ(r) * Max(0, r.battery_om_cost) * PriceDen * FuelScale * v.P_discharge
    + StepQ(r) * Max(0, r.fuel_cell_om_cost) * PriceDen * FuelScale * v.P_fc
    + StepQ(r) * Max(0, r.electrolyzer_om_cost) * PriceDen * FuelScale * v.P_elec

\* optimization.py 287-296: the term of step tt in the cost objective.
CostTermSingle(r, tt, v) ==
    StepQ(r) * PriceNum(tt) * FuelScale * v.P_grid_import
    + StepQ(r) * Max(0, r.load_curtail_cost) * PriceDen * FuelScale * v.P_load_curt
    + StepQ(r) * Max(0, r.fuel_price) * PriceDen * v.F_diesel
    + StepQ(r) * Max(0, r.pv_energy_cost) * PriceDen * FuelScale * v.P_pv_used
    + StepQ(r) * Max(0, r.battery_om_cost) * PriceDen * FuelScale * v.P_discharge
    + StepQ(r) * Max(0, r.fuel_cell_om_cost) * PriceDen * FuelScale * v.P_fc
    + StepQ(r) * Max(0, r.electrolyzer_om_cost) * PriceDen * FuelScale * v.P_elec

\* Faulty variant of the multi-load objective: every deferrable stream is
\* curtailed at the penalty of stream 3.
CostTermFlatPenalty(r, tt, v) ==
    StepQ(r) * PriceNum(tt) * FuelScale * v.P_grid
    + 4 * Max(0, r.fuel_price) * PriceDen * v.F_diesel
    + StepQ(r) * Max(0, r.pv_energy_cost) * PriceDen * FuelScale * v.P_pv_used
    + StepQ(r) * Max(0, r.battery_om_cost) * PriceDen * FuelScale * v.P_discharge
    + StepQ(r) * Max(0, r.fuel_cell_om_cost) * PriceDen * FuelScale * v.P_fc
    + StepQ(r) * Max(0, r.electrolyzer_om_cost) * PriceDen * FuelScale * v.P_elec
    + StepQ(r) * Max(0, r.curtail_penalty[1]) * PriceDen * FuelScale
          * (v.P_curt[3] + v.P_curt[4] + v.P_curt[5])

\* demand_optimization.py 289-300: the cost components of step tt.  The
\* fuel component carries no step_size: it is 4 quarter hours' worth.
CostTermMulti(r, tt, v) ==
    StepQ(r) * PriceNum(tt) * FuelScale * v.P_grid
    + 4 * Max(0, r.fuel_price) * PriceDen * v.F_diesel
    + StepQ(r) * Max(0, r.pv_energy_cost) * PriceDen * FuelScale * v.P_pv_used
    + StepQ(r) * Max(0, r.battery_om_cost) * PriceDen * FuelScale * v.P_discharge
    + StepQ(r) * Max(0, r.fuel_cell_om_cost) * PriceDen * FuelScale * v.P_fc
    + StepQ(r) * Max(0, r.electrolyzer_om_cost) * PriceDen * FuelScale * v.P_elec
    + StepQ(r) * Max(0, r.curtail_penalty[1]) * PriceDen * FuelScale * v.P_curt[3]
    + StepQ(r) * Max(0, r.curtail_penalty[2]) * PriceDen * FuelScale * v.P_curt[4]
    + StepQ(r) * Max(0, r.curtail_penalty[3]) * PriceDen * FuelScale * v.P_curt[5]

\* The term step tt adds to the objective handed to the solver.
ObjectiveTerm(r, tt, v) ==
    IF r.variant = "multi" THEN CostTermMulti(r, tt, v)
    ELSE IF MinimisedObjective(r) = "co2" THEN Co2Term(r, v)
    ELSE CostTermSingle(r, tt, v)

\* A row together with its objective term.
WithObjective(r, tt, v) ==
    [f \in DOMAIN v \cup {"objective_term"} |->
        IF f = "objective_term" THEN ObjectiveTerm(r, tt, v) ELSE v[f]]

Row(g, imp, lcurt, served, curt, pv, avail, d, b, h) ==
    [assigned |-> TRUE,
     P_grid |-> g, P_grid_import |-> imp, P_load_curt |-> lcurt,
     P_served |-> served, P_curt |-> curt,
     P_pv_used |-> pv, P_solar_curt |-> avail - pv,
     P_diesel |-> d.P_diesel, z_diesel |-> d.z_diesel,
     F_diesel |-> FuelLowerBound(d.z_diesel, d.P_diesel) + d.slack,
     P_charge |-> b.P_charge, P_discharge |-> b.P_discharge,
     P_elec |-> h.s1 + h.s2, P_elec_s1 |-> h.s1, P_elec_s2 |-> h.s2, P_fc |-> h.P_fc,
     H_produced |-> HProduced(req, h.s1, h.s2)]

\* model.solve(solver), line 310 / 313: the solver starts on the built
\* model; E_battery[0] and E_h2[0] are fixed by lines 221 and 236.
SolveStart ==
    /\ pc = "built"
    /\ pc' = "solving"
    /\ solve_calls' = solve_calls + 1
    /\ t' = 0
    /\ E_battery' = initial_battery_level(req)
    /\ E_h2' = initial_h2_level(req)
    /\ x' = NoRow
    /\ UNCHANGED <<serving, responses, req, series, scales,
                   model_built, status, result, error>>

\* The rows the single-load constraints of request r allow at step tt
\* with the storage levels eb and eh (lines 198-217, 227-228, 238-243,
\* 253-254).
SingleRows(r, tt, eb, eh) ==
    {WithObjective(r, tt, v) :
        v \in {w \in {Row(GridFromBalance(LoadAt(1, tt) - c[1], c[2], c[3].P_diesel,
                                         c[4].P_discharge, c[5].P_fc,
                                         c[4].P_charge, c[5].s1 + c[5].s2),
                         Max(0, GridFromBalance(LoadAt(1, tt) - c[1], c[2],
                                                c[3].P_diesel, c[4].P_discharge,
                                                c[5].P_fc, c[4].P_charge,
                                                c[5].s1 + c[5].s2)) + c[6],
                         c[1], <<>>, <<>>, c[2], SolarAvailable(tt),
                         c[3], c[4], c[5]) :
                     c \in {0, LoadAt(1, tt)} \X PvChoices(r, tt) \X DieselChoices(r)
                            \X BatteryChoices(r) \X HydrogenChoices(r)
                            \X ImportSlackValues} :
                /\ 0 <= w.P_load_curt /\ w.P_load_curt <= LoadAt(1, tt)
                /\ 0 <= w.P_pv_used /\ w.P_pv_used <= SolarAvailable(tt)
                /\ GridInBounds(r, w.P_grid)
                /\ StorageFeasible(r, tt, eb, eh, w)}}

\* The solver fixes the variables of step t of the single-load model.
AssignSingle ==
    /\ pc = "solving"
    /\ req.variant = "single"
    /\ ~x.assigned
    /\ \E v \in SingleRows(req, t, E_battery, E_h2) : x' = v
    /\ UNCHANGED <<serving, responses, req, pc, series, scales,
                   model_built, solve_calls, t, E_battery, E_h2, status, result, error>>

\* Faulty variant of the load constraints: the curtailed power is not
\* taken off what is served.
ServedInFull(i, tt, curt) == LoadAt(i, tt)

\* Lines 224 and 227: what is served of load i when c is curtailed.
ServedOf(i, tt, curt) ==
    IF i \in critical_loads THEN LoadAt(i, tt) ELSE LoadAt(i, tt) - curt[i]

\* What is curtailed of the three deferrable loads, as a function on
\* dr_loads.
CurtOf(c3, c4, c5) ==
    [i \in dr_loads |-> IF i = 3 THEN c3 ELSE IF i = 4 THEN c4 ELSE c5]

ServedAll(tt, curt) == [i \in load_ids |-> ServedOf(i, tt, curt)]

\* The rows the multi-load constraints of request r allow at step tt
\* with the storage levels eb and eh (lines 221-252, 262-263, 273-278).
MultiRows(r, tt, eb, eh) ==
    {WithObjective(r, tt, v) :
        v \in {w \in {Row(GridFromBalance(
                             ServedAll(tt, CurtOf(c[1], c[2], c[3]))[1]
                             + ServedAll(tt, CurtOf(c[1], c[2], c[3]))[2]
                             + ServedAll(tt, CurtOf(c[1], c[2], c[3]))[3]
                             + ServedAll(tt, CurtOf(c[1], c[2], c[3]))[4]
                             + ServedAll(tt, CurtOf(c[1], c[2], c[3]))[5],
                             c[4], c[5].P_diesel, c[6].P_discharge, c[7].P_fc,
                             c[6].P_charge, c[7].s1 + c[7].s2),
                         0, 0, ServedAll(tt, CurtOf(c[1], c[2], c[3])),
                         CurtOf(c[1], c[2], c[3]), c[4], SolarAvailable(tt),
                         c[5], c[6], c[7]) :
                     c \in {0, LoadAt(3, tt)} \X {0, LoadAt(4, tt)}
                            \X {0, LoadAt(5, tt)} \X PvChoices(r, tt)
                            \X DieselChoices(r) \X BatteryChoices(r)
                            \X HydrogenChoices(r)} :
                /\ \A i \in load_ids : w.P_served[i] >= 0
                /\ \A i \in dr_loads : w.P_curt[i] >= 0
                /\ 0 <= w.P_pv_used /\ w.P_pv_used <= SolarAvailable(tt)
                /\ GridInBounds(r, w.P_grid)
                /\ \E z_curt \in Binary :
                       ExportLockout(r, z_curt,
                                     w.P_curt[3] + w.P_curt[4] + w.P_curt[5],
                                     w.P_grid)
                /\ StorageFeasible(r, tt, eb, eh, w)}}

\* The solver fixes the variables of step t of the multi-load model.
AssignMulti ==
    /\ pc = "solving"
    /\ req.variant = "multi"
    /\ ~x.assigned
    /\ \E v \in MultiRows(req, t, E_battery, E_h2) : x' = v
    /\ UNCHANGED <<serving, responses, req, pc, series, scales,
                   model_built, solve_calls, t, E_battery, E_h2, status, result, error>>

\* Lines 223-226 and 244-247 (254-261, 279-282): E[t+1] follows from
\* E[t] and the flows of step t.
Advance ==
    /\ pc = "solving"
    /\ x.assigned
    /\ t < time_horizon_of(req) - 1
    /\ E_battery' = BatteryEnd(req, E_battery, x)
    /\ E_h2' = H2End(req, E_h2, x)
    /\ t' = t + 1
    /\ x' = NoRow
    /\ UNCHANGED <<serving, responses, req, pc, series, scales,
                   model_built, solve_calls, status, result, error>>

\* The solver returns an assignment of all T steps that meets every
\* constraint: model.status = LpStatusOptimal.
SolveOptimal ==
    /\ pc = "solving"
    /\ x.assigned
    /\ t = time_horizon_of(req) - 1
    /\ status' = LpStatusOptimal
    /\ pc' = "solved"
    /\ UNCHANGED <<serving, responses, req, series, scales, model_built,
                   solve_calls, t, E_battery, E_h2, x, result, error>>

\* The storage levels some assignment of steps 0 .. n-1 leads to.  The
\* last step's rows are those that close the cycle, so the model has a
\* feasible point exactly when a level is left after the last step.
RECURSIVE ReachLevels(_, _)
ReachLevels(r, n) ==
    IF n = 0 THEN {<<initial_battery_level(r), initial_h2_level(r)>>}
    ELSE UNION {
             {<<BatteryEnd(r, lv[1], v), H2End(r, lv[2], v)>> :
                  v \in IF r.variant = "multi"
                        THEN MultiRows(r, n - 1, lv[1], lv[2])
                        ELSE SingleRows(r, n - 1, lv[1], lv[2])} :
             lv \in ReachLevels(r, n - 1)}

HasFeasiblePoint(r) == ReachLevels(r, time_horizon_of(r)) # {}

NonOptimal ==
    {LpStatusNotSolved, LpStatusInfeasible, LpStatusUnbounded, LpStatusUndefined}

\* The solve ends without an optimal assignment (time limit, no feasible
\* point, ...): no variable holds a value of a solution.  The solver
\* reports a model infeasible only if it has no feasible point.
SolveFail ==
    /\ pc = "solving"
    /\ t = 0
    /\ ~x.assigned
    /\ \E st \in NonOptimal :
           /\ st = LpStatusInfeasible => ~HasFeasiblePoint(req)
           /\ status' = st
    /\ pc' = "solved"
    /\ UNCHANGED <<serving, responses, req, series, scales, model_built,
                   solve_calls, t, E_battery, E_h2, x, result, error>>

\* Faulty variant of the status check: a solve that stopped without a
\* solution is accepted too.
AcceptsNotSolved(st) == st \in {LpStatusOptimal, LpStatusNotSolved}

\* Lines 313-319 / 316-320: anything but LpStatusOptimal raises.
Accepts(st) == st = LpStatusOptimal

CheckStatus ==
    /\ pc = "solved"
    /\ IF Accepts(status)
       THEN /\ pc' = "accepted"
            /\ error' = error
       ELSE /\ pc' = "failed"
            /\ error' = ValueError(<<"Optimization failed with status: ",
                                     LpStatus(status)>>, LpStatus(status))
    /\ UNCHANGED <<serving, responses, req, series, scales, model_built,
                   solve_calls, t, E_battery, E_h2, x, status, result>>

\* demand_optimization.py 341-346: what the aggregator records as the
\* curtailment of load i at one step.
curt_it(i, v) == IF i \in dr_loads THEN v.P_curt[i] ELSE 0

\* demand_optimization.py 433-445: the entries of the per-load breakdown
\* for the critical loads.  Their curt_it is the same at every step, so
\* the sum over the T steps is T times it (in quarter hours / PS kWh).
CriticalBreakdown(r, v) ==
    [i \in critical_loads |->
        [Curtailed_kWh |-> StepQ(r) * time_horizon_of(r) * curt_it(i, v),
         Type |-> "CRITICAL"]]

\* Lines 322-564 / 323-615: aggregation.  Line 353 / 381 divides by
\* h2_tank_capacity; line 381 indexes the price series (co2 runs reach it
\* with a short series).
Aggregate ==
    /\ pc = "accepted"
    /\ IF Max(0, req.h2_tank_capacity) = 0
       THEN /\ pc' = "crashed"
            /\ error' = [raised |-> TRUE, type |-> "ZeroDivisionError",
                         message |-> <<"float division by zero">>, status_string |-> ""]
            /\ result' = result
       ELSE IF ProfLen(price_profile) < time_horizon_of(req)
       THEN /\ pc' = "crashed"
            /\ error' = [raised |-> TRUE, type |-> "IndexError",
                         message |-> <<"list index out of range">>, status_string |-> ""]
            /\ result' = result
       ELSE /\ pc' = "done"
            /\ error' = error
            /\ result' = [returned |-> TRUE,
                          summary |-> [Optimization_Period_days |-> num_days_of(req),
                                       Resolution_min |-> time_resolution_of(req),
                                       Objective |-> IF req.variant = "multi" THEN "cost"
                                                     ELSE objective_type_of(req)],
                          plot |-> TRUE,
                          chart_data |-> req.variant = "multi",
                          chart_entries |->
                              IF req.variant = "multi"
                              THEN time_horizon_of(req) ELSE 0,
                          load_breakdown |->
                              IF req.variant = "multi"
                              THEN CriticalBreakdown(req, x) ELSE <<>>]
    /\ UNCHANGED <<serving, responses, req, series, scales, model_built,
                   solve_calls, t, E_battery, E_h2, x, status>>

\* optimization.py 704-726 / demand_optimization.py 754-771: what the
\* endpoint returns for the outcome of the run.  A returned summary gives
\* the success object; ValueError gives status code 400 with the
\* exception's text; every other exception gives 500 with "Optimization
\* failed: " before the text.
\* Faulty variant: only ValueError is caught; any other exception leaves
\* the endpoint and the framework answers with a bare 500.
JSONResponseValueErrorOnly(res, err) ==
    IF res.returned
    THEN [status_code |-> 200, status |-> "success", message |-> <<>>,
          summary |-> TRUE, plot_base64 |-> res.plot,
          chart_data |-> res.chart_data]
    ELSE IF err.type = "ValueError"
    THEN [status_code |-> 400, status |-> "error", message |-> err.message,
          summary |-> FALSE, plot_base64 |-> FALSE, chart_data |-> FALSE]
    ELSE [status_code |-> 500, status |-> "", message |-> <<>>,
          summary |-> FALSE, plot_base64 |-> FALSE, chart_data |-> FALSE]

JSONResponse(res, err) ==
    IF res.returned
    THEN [status_code |-> 200, status |-> "success", message |-> <<>>,
          summary |-> TRUE, plot_base64 |-> res.plot,
          chart_data |-> res.chart_data]
    ELSE IF err.type = "ValueError"
    THEN [status_code |-> 400, status |-> "error", message |-> err.message,
          summary |-> FALSE, plot_base64 |-> FALSE, chart_data |-> FALSE]
    ELSE [status_code |-> 500, status |-> "error",
          message |-> <<"Optimization failed: ">> \o err.message,
          summary |-> FALSE, plot_base64 |-> FALSE, chart_data |-> FALSE]

\* ------------------------------------------------------ the reported cost
\* What step tt adds to total_cost_value, in the units of the cost terms.
\* optimization.py 341 and 380-385: the grid term is signed.
ReportedCostSingle(r, tt, v) ==
    StepQ(r) * PriceNum(tt) * FuelScale * v.P_grid
    + StepQ(r) * Max(0, r.pv_energy_cost) * PriceDen * FuelScale * v.P_pv_used
    + StepQ(r) * Max(0, r.battery_om_cost) * PriceDen * FuelScale * v.P_discharge
    + StepQ(r) * Max(0, r.fuel_price) * PriceDen * v.F_diesel
    + StepQ(r) * Max(0, r.fuel_cell_om_cost) * PriceDen * FuelScale * v.P_fc
    + StepQ(r) * Max(0, r.electrolyzer_om_cost) * PriceDen * FuelScale * v.P_elec
    + StepQ(r) * Max(0, r.load_curtail_cost) * PriceDen * FuelScale * v.P_load_curt

\* demand_optimization.py 368 and 414-421: imports only in the grid term.
ReportedCostMulti(r, tt, v) ==
    StepQ(r) * PriceNum(tt) * FuelScale * Max(0, v.P_grid)
    + StepQ(r) * Max(0, r.pv_energy_cost) * PriceDen * FuelScale * v.P_pv_used
    + StepQ(r) * Max(0, r.battery_om_cost) * PriceDen * FuelScale * v.P_discharge
    + StepQ(r) * Max(0, r.fuel_price) * PriceDen * v.F_diesel
    + StepQ(r) * Max(0, r.fuel_cell_om_cost) * PriceDen * FuelScale * v.P_fc
    + StepQ(r) * Max(0, r.electrolyzer_om_cost) * PriceDen * FuelScale * v.P_elec
    + StepQ(r) * Max(0, r.curtail_penalty[1]) * PriceDen * FuelScale * v.P_curt[3]
    + StepQ(r) * Max(0, r.curtail_penalty[2]) * PriceDen * FuelScale * v.P_curt[4]
    + StepQ(r) * Max(0, r.curtail_penalty[3]) * PriceDen * FuelScale * v.P_curt[5]

ReportedCost(r, tt, v) ==
    IF r.variant = "multi" THEN ReportedCostMulti(r, tt, v)
    ELSE ReportedCostSingle(r, tt, v)

SetMin(S) == CHOOSE m \in S : \A e \in S : m <= e

\* The rows of step tt that minimise the objective, for a site whose
\* storage stays at its initial level: no constraint links two steps of
\* such a site, so the optimal solutions are the sequences of these rows.
OptimalRows(r, tt) ==
    LET rows == IF r.variant = "multi"
                THEN MultiRows(r, tt, initial_battery_level(r), initial_h2_level(r))
                ELSE SingleRows(r, tt, initial_battery_level(r), initial_h2_level(r))
        best == SetMin({v.objective_term : v \in rows})
    IN  {v \in rows : v.objective_term = best}

\* The site has no storage flow to choose: its levels stay where they
\* start.
StorageIdle(r) ==
    /\ \A b \in BatteryChoices(r) : b.P_charge = 0 /\ b.P_discharge = 0
    /\ \A h \in HydrogenChoices(r) : h.s1 = 0 /\ h.s2 = 0 /\ h.P_fc = 0

\* The least and the greatest total cost an optimal solution of the
\* first n steps reports.
RECURSIVE LeastReportedTotal(_, _)
LeastReportedTotal(r, n) ==
    IF n = 0 THEN 0
    ELSE LeastReportedTotal(r, n - 1)
         + SetMin({ReportedCost(r, n - 1, v) : v \in OptimalRows(r, n - 1)})

RECURSIVE GreatestReportedTotal(_, _)
GreatestReportedTotal(r, n) ==
    IF n = 0 THEN 0
    ELSE GreatestReportedTotal(r, n - 1)
         + SetMax({ReportedCost(r, n - 1, v) : v \in OptimalRows(r, n - 1)})

\* optimization.py 359-360: the totals total_served can take over the
\* optimal solutions of the first n steps, in quarter hours * kW / PS.
RECURSIVE TotalServed(_, _)
TotalServed(r, n) ==
    IF n = 0 THEN {0}
    ELSE {a + StepQ(r) * (LoadAt(1, n - 1) - v.P_load_curt) :
             a \in TotalServed(r, n - 1), v \in OptimalRows(r, n - 1)}

\* optimization.py 381: the totals grid_cost can take over the optimal
\* solutions of the first n steps, in units of 1 / (4 * PS * PriceDen).
RECURSIVE GridCost(_, _)
GridCost(r, n) ==
    IF n = 0 THEN {0}
    ELSE {a + StepQ(r) * PriceNum(n - 1) * v.P_grid :
             a \in GridCost(r, n - 1), v \in OptimalRows(r, n - 1)}

\* The endpoint returns: the run has returned or raised.
Respond ==
    /\ pc \in {"done", "failed", "crashed"}
    /\ responses' = Append(responses, JSONResponse(result, error))
    /\ pc' = "responded"
    /\ UNCHANGED <<serving, req, series, scales, model_built, solve_calls, t,
                   E_battery, E_h2, x, status, result, error>>

Next ==
    \/ Validate
    \/ Normalize
    \/ BuildModel
    \/ SolveStart
    \/ AssignSingle
    \/ AssignMulti
    \/ Advance
    \/ SolveOptimal
    \/ SolveFail
    \/ CheckStatus
    \/ Aggregate
    \/ Respond

Spec == Init /\ [][Next]_vars

\* ----------------------------------------------------- the serving process
\* One uvicorn process with one event loop (main.py 162-168).  A coroutine
\* keeps the loop from the moment it is resumed until its next await.
\* optimize (optimization.py 567-726) has no await between the start of
\* a call without an upload and its return: run_optimization is called in
\* the coroutine itself, so the call keeps the loop while model.solve()
\* waits for the solver.

\* A client posts a request.
RequestArrives(c) ==
    /\ handler[c] = "absent"
    /\ handler' = [handler EXCEPT ![c] = "pending"]
    /\ UNCHANGED <<run, running, solve_left, ws_timer, event_counter,
                   environ, rcParams, ready_at_begin, served_during>>

\* The loop resumes optimize for client c: params are built and
\* run_optimization runs up to model.solve().  Lines 299-303 write
\* os.environ['COIN_CMD'] when shutil.which finds a system solver.
OptimizeBegins(c) ==
    /\ running = 0
    /\ handler[c] = "pending"
    /\ handler' = [handler EXCEPT ![c] = "solving"]
    /\ running' = c
    /\ solve_left' = SolveTime
    /\ \E found \in BOOLEAN :
           environ' = IF found THEN "cbc_path" ELSE environ
    /\ ready_at_begin' =
           [ready_at_begin EXCEPT
               ![c] = \/ ws_timer = "elapsed"
                      \/ \E d \in Clients \ {c} : handler[d] = "pending"]
    /\ served_during' =
           [d \in Clients |->
               IF d = c THEN FALSE
               ELSE served_during[d] \/ handler[d] = "solving"]
    /\ UNCHANGED <<run, ws_timer, event_counter, rcParams>>

\* Line 310: time passes while model.solve() waits for the solver.
ModelSolve ==
    /\ running # 0
    /\ solve_left > 0
    /\ solve_left' = solve_left - 1
    /\ UNCHANGED <<run, handler, running, ws_timer, event_counter,
                   environ, rcParams, ready_at_begin, served_during>>

\* Lines 313-564 and 707-726: the solve is over, the results are
\* aggregated, the plot is drawn (plt.style.use and plt.rcParams.update
\* at 493-494) and the response is returned; the loop is free again.
OptimizeReturns(c) ==
    /\ running = c
    /\ solve_left = 0
    /\ handler' = [handler EXCEPT ![c] = "responded"]
    /\ running' = 0
    /\ rcParams' = "updated"
    /\ UNCHANGED <<run, solve_left, ws_timer, event_counter, environ,
                   ready_at_begin, served_during>>

\* websocket_manager.py 20: the two seconds of asyncio.sleep are over;
\* the websocket task is ready to be resumed.
SleepElapses ==
    /\ ws_timer = "sleeping"
    /\ ws_timer' = "elapsed"
    /\ UNCHANGED <<run, handler, running, solve_left, event_counter,
                   environ, rcParams, ready_at_begin, served_during>>

\* websocket_manager.py 19-40: the loop resumes the websocket task, which
\* counts the event, sends the telemetry and sleeps again.
WebsocketTick ==
    /\ running = 0
    /\ ws_timer = "elapsed"
    /\ event_counter < MaxTicks
    /\ event_counter' = event_counter + 1
    /\ ws_timer' = "sleeping"
    /\ served_during' =
           [d \in Clients |-> served_during[d] \/ handler[d] = "solving"]
    /\ UNCHANGED <<run, handler, running, solve_left, environ, rcParams,
                   ready_at_begin>>

ServingInit == Init /\ req = BaseRequest("single")

ServingNext ==
    \/ \E c \in Clients : RequestArrives(c)
    \/ \E c \in Clients : OptimizeBegins(c)
    \/ ModelSolve
    \/ \E c \in Clients : OptimizeReturns(c)
    \/ SleepElapses
    \/ WebsocketTick

ServingSpec == ServingInit /\ [][ServingNext]_vars

\* ------------------------------------------------------------ properties
\* Rows are checked wherever one is assigned: every row of an accepted
\* solution is the row of some such state.

\* C1: a run returns a summary only when the solver's terminal status is
\* optimal; on any other status nothing is aggregated, nothing is returned
\* and the run fails with an error whose message carries the status string.
C1_SummaryOnlyWhenOptimal ==
    /\ result.returned => status = LpStatusOptimal
    /\ pc \in {"accepted", "done"} => status = LpStatusOptimal
    /\ (pc = "crashed" /\ solve_calls > 0) => status = LpStatusOptimal
    /\ (/\ status \in {LpStatusNotSolved, LpStatusInfeasible,
                       LpStatusUnbounded, LpStatusUndefined}
        /\ pc # "solved")
       => /\ pc \in {"failed", "responded"}
          /\ ~result.returned
          /\ error.raised
          /\ error.type = "ValueError"
          /\ error.message = <<"Optimization failed with status: ",
                               CASE status = LpStatusNotSolved -> "Not Solved"
                                 [] status = LpStatusInfeasible -> "Infeasible"
                                 [] status = LpStatusUnbounded -> "Unbounded"
                                 [] OTHER -> "Undefined">>

\* A run that ended on an infeasible model and raised the error.
C1_FailedOnInfeasible ==
    /\ pc = "failed"
    /\ status = LpStatusInfeasible
    /\ error.status_string = "Infeasible"
    /\ ~result.returned

\* C2: at every step of a solution supply equals demand exactly:
\* PV_used + Diesel + Discharge + Grid + FuelCell = served load + Charge
\* + Electrolyzer, the served load being Load - LoadCurtailed (single) or
\* the sum of the five Served (multi).
C2_PowerBalance ==
    x.assigned =>
        x.P_pv_used + x.P_diesel + x.P_discharge + x.P_grid + x.P_fc
            = (IF req.variant = "single"
               THEN LoadAt(1, t) - x.P_load_curt
               ELSE x.P_served[1] + x.P_served[2] + x.P_served[3]
                    + x.P_served[4] + x.P_served[5])
              + x.P_charge + x.P_elec

\* The last step of an accepted solution with the fuel cell running.
C2_BalancedWithFuelCell ==
    /\ pc = "accepted"
    /\ x.P_fc > 0
    /\ x.P_grid > 0

\* C3: after normalization every load, price and solar series has length
\* exactly T = num_days * 24 * (60 / resolution_minutes).
C3_SeriesLengthExactlyT ==
    pc = "normalized" =>
        /\ \A i \in DOMAIN load_profiles :
               ProfLen(load_profiles[i]) = time_horizon_of(req)
        /\ ProfLen(price_profile) = time_horizon_of(req)
        /\ ProfLen(solar_profile) = time_horizon_of(req)

\* C4: a request with an undersized or missing load or price series, or
\* with fewer than five streams (multi), fails with a validation error
\* before a model is built and before the solver is called.
C4_FailFastValidation ==
    LET undersized ==
            IF req.variant = "single"
            THEN \/ Len(req.loads) < 1
                 \/ req.loads[1].len < 24
                 \/ req.price.len < 24
            ELSE \/ Len(req.loads) < 5
                 \/ \E i \in 1..5 : req.loads[i].len < 24
                 \/ req.price.len < 24
    IN  undersized =>
            /\ ~model_built
            /\ solve_calls = 0
            /\ pc \in {"start", "failed", "responded"}
            /\ pc \in {"failed", "responded"} =>
                   /\ error.type = "ValueError"
                   /\ error.message[1] = "Invalid input parameters: "

\* A multi-load request with four streams, rejected.
C4_RejectedFourStreams ==
    /\ pc = "failed"
    /\ req.variant = "multi"
    /\ Len(req.loads) = 4
    /\ error.message[2] = "Must provide 5 load profiles"
    /\ ~model_built

\* C5: in a multi-load solution, a step with any curtailment of loads
\* 3, 4, 5 has Grid >= 0.
C5_NoExportWhenCurtailing ==
    (x.assigned /\ req.variant = "multi"
        /\ x.P_curt[3] + x.P_curt[4] + x.P_curt[5] > 0)
    => x.P_grid >= 0

\* The last step of an accepted solution of a site whose battery could
\* push the grid into export, with load 3 curtailed.
C5_CurtailedAtBatterySite ==
    /\ pc = "accepted"
    /\ req.variant = "multi"
    /\ req.battery_capacity > 0
    /\ x.P_curt[3] > 0
    /\ x.P_grid >= 0

\* C6: in a multi-load solution the critical loads 1 and 2 are served in
\* full, each curtailable load has Served + Curtailed = Demand with
\* 0 <= Curtailed <= Demand, and the breakdown of a finished run reports
\* Curtailed_kWh = 0 for the critical loads.
C6_CriticalServedInFull ==
    /\ (x.assigned /\ req.variant = "multi") =>
           /\ \A i \in {1, 2} : x.P_served[i] = LoadAt(i, t)
           /\ \A i \in {3, 4, 5} :
                  /\ x.P_served[i] + x.P_curt[i] = LoadAt(i, t)
                  /\ 0 <= x.P_curt[i]
                  /\ x.P_curt[i] <= LoadAt(i, t)
    /\ (pc = "done" /\ req.variant = "multi") =>
           \A i \in {1, 2} : result.load_breakdown[i].Curtailed_kWh = 0

\* A finished multi-load run whose last step curtails load 4 in full.
C6_FinishedWithCurtailment ==
    /\ pc = "done"
    /\ req.variant = "multi"
    /\ x.P_curt[4] > 0
    /\ x.P_served[4] = 0
    /\ x.P_served[1] > 0

\* C7: E_battery[t] and E_h2[t] lie within [10%, 90%] of the rated
\* capacity at every step, and so does the level every step ends with
\* (the reported H2_Level, and the level after the last step).
C7_StorageWithinBounds ==
    LET cap_b == battery_storage_energy_of(req) * BessScale * PS
        cap_h == Max(0, req.h2_tank_capacity) * H2Scale(req) * PS
        end_b == E_battery + StepQ(req) * (EffNum * EffNum * x.P_charge
                                           - EffDen * EffDen * x.P_discharge)
        end_h == E_h2 + StepQ(req) * (x.H_produced * EffRed(req)
                                      - FcRed(req) * x.P_fc)
    IN  solve_calls > 0 =>
            /\ cap_b <= 10 * E_battery /\ 10 * E_battery <= 9 * cap_b
            /\ cap_h <= 10 * E_h2 /\ 10 * E_h2 <= 9 * cap_h
            /\ x.assigned =>
                   /\ cap_b <= 10 * end_b /\ 10 * end_b <= 9 * cap_b
                   /\ cap_h <= 10 * end_h /\ 10 * end_h <= 9 * cap_h

\* An accepted solution whose battery starts the last step below half.
C7_BatteryBelowHalf ==
    /\ pc = "accepted"
    /\ 2 * E_battery < battery_storage_energy_of(req) * BessScale * PS
    /\ x.P_charge > 0

\* C8: both storages are cyclic: E[0] is half the capacity, E[t+1]
\* follows the dynamics from E[t], and the level the last step ends with
\* equals E[0].
C8_CyclicStorage ==
    /\ [](/\ (pc = "solving" /\ t = 0) =>
                 /\ 2 * E_battery = battery_storage_energy_of(req) * BessScale * PS
                 /\ 2 * E_h2 = Max(0, req.h2_tank_capacity) * H2Scale(req) * PS
          /\ pc = "accepted" =>
                 /\ 2 * (E_battery
                         + StepQ(req) * (EffNum * EffNum * x.P_charge
                                         - EffDen * EffDen * x.P_discharge))
                        = battery_storage_energy_of(req) * BessScale * PS
                 /\ 2 * (E_h2 + StepQ(req) * (x.H_produced * EffRed(req)
                                              - FcRed(req) * x.P_fc))
                        = Max(0, req.h2_tank_capacity) * H2Scale(req) * PS)
    /\ [][t' = t + 1 =>
              /\ E_battery' = E_battery
                                + StepQ(req) * (EffNum * EffNum * x.P_charge
                                                - EffDen * EffDen * x.P_discharge)
              /\ E_h2' = E_h2 + StepQ(req) * (x.H_produced * EffRed(req)
                                               - FcRed(req) * x.P_fc)]_vars

\* A two-day solution closed by a charging last step.
C8_TwoDayCycleClosed ==
    /\ pc = "accepted"
    /\ num_days_of(req) = 2
    /\ t = time_horizon_of(req) - 1
    /\ x.P_charge > 0

\* C9: in no step does the battery charge and discharge, and in no step
\* do the electrolyzer and the fuel cell both run.
C9_MutualExclusion ==
    x.assigned =>
        /\ ~(x.P_charge > 0 /\ x.P_discharge > 0)
        /\ ~(x.P_elec > 0 /\ x.P_fc > 0)

\* An accepted solution whose last step discharges the battery.
C9_DischargingOnly ==
    /\ pc = "accepted"
    /\ x.P_discharge > 0
    /\ x.P_charge = 0

\* C10: in cost mode the objective term of a step, in both variants, is
\* step_size * [price * GridImport + fuel_price * Fuel + pv cost * PV_used
\* + battery O&M * Discharge + fuel-cell O&M * FuelCell + electrolyzer O&M
\* * Electrolyzer + curtailment penalty * Curtailed], GridImport being the
\* non-negative import.
C10_CostObjectiveAsStated ==
    LET GridImport ==
            IF req.variant = "single" THEN x.P_grid_import ELSE Max(0, x.P_grid)
        Penalty ==
            IF req.variant = "single"
            THEN Max(0, req.load_curtail_cost) * x.P_load_curt
            ELSE Max(0, req.curtail_penalty[1]) * x.P_curt[3]
                 + Max(0, req.curtail_penalty[2]) * x.P_curt[4]
                 + Max(0, req.curtail_penalty[3]) * x.P_curt[5]
    IN  (pc = "accepted" /\ MinimisedObjective(req) = "cost")
        => x.objective_term
               = StepQ(req)
                 * (PriceNum(t) * FuelScale * GridImport
                    + Max(0, req.fuel_price) * PriceDen * x.F_diesel
                    + PriceDen * FuelScale
                      * (Max(0, req.pv_energy_cost) * x.P_pv_used
                         + Max(0, req.battery_om_cost) * x.P_discharge
                         + Max(0, req.fuel_cell_om_cost) * x.P_fc
                         + Max(0, req.electrolyzer_om_cost) * x.P_elec
                         + Penalty))

\* C11: each of the load, price and solar series is decided on its own:
\* a supplied series of length T reaches the builder unchanged, element
\* for element, whatever the lengths of the others, and only a series
\* whose length differs from T is resampled.
C11_PassThroughPerSeries ==
    pc = "normalized" =>
        \A p \in {load_profiles[i] : i \in DOMAIN load_profiles}
                 \cup {price_profile, solar_profile} :
            IF SrcLen(p.src) = time_horizon_of(req)
            THEN /\ ProfLen(p) = time_horizon_of(req)
                 /\ \A k \in 0..(time_horizon_of(req) - 1) :
                        ProfNum(p, k) = SrcAt(p.src, k) * ProfDen(p)
            ELSE p.resampled

\* C12: resampling a 24-point series with s steps per hour over d days
\* reproduces the base values at the hour marks: the output at index
\* j*24*s + k*s is base[k] for every day j and hour k.
C12_ExactAtHourMarks ==
    pc = "normalized" =>
        \A p \in {load_profiles[i] : i \in DOMAIN load_profiles}
                 \cup {price_profile, solar_profile} :
            (p.resampled /\ SrcLen(p.src) = 24) =>
                \A j \in 0..(p.days - 1), k \in 0..23 :
                    UpsampleNum(p.src, p.sph, j * 24 * p.sph + k * p.sph)
                        = SrcAt(p.src, k) * UpsampleDen(24, p.sph)

\* C13: a subsystem supplied with capacity 0 has all of its flows at 0
\* in every step of an accepted solution.
C13_ZeroCapacityZeroFlow ==
    (pc = "accepted" /\ x.assigned) =>
        /\ req.grid_connection = 0 => (x.P_grid = 0 /\ x.P_grid_import = 0)
        /\ req.solar_connection = 0 => (x.P_pv_used = 0 /\ x.P_solar_curt = 0)
        /\ req.battery_capacity = 0 => (x.P_charge = 0 /\ x.P_discharge = 0)
        /\ req.diesel_capacity = 0 => x.P_diesel = 0
        /\ req.electrolyzer_capacity = 0 => (x.P_elec = 0 /\ x.H_produced = 0)
        /\ req.fuel_cell_capacity = 0 => x.P_fc = 0
        /\ req.h2_tank_capacity = 0 => (x.P_elec = 0 /\ x.P_fc = 0)

\* C14: the aggregation of an accepted solution completes: no division
\* by zero ends it, whichever total or capacity is zero.
C14_AggregationCompletes ==
    ~(pc = "crashed" /\ error.type = "ZeroDivisionError")

\* C15: the handling of the scalar parameters never raises: a run fails
\* in input handling only when a series is missing or too short.
C15_OnlySeriesFailInputHandling ==
    (pc = "failed" /\ ~model_built) =>
        IF req.variant = "single"
        THEN \/ Len(req.loads) < 1
             \/ req.loads[1].len < MinProfileLen
             \/ req.price.len < MinProfileLen
        ELSE \/ Len(req.loads) < NumLoads
             \/ \E i \in 1..NumLoads : req.loads[i].len < MinProfileLen
             \/ req.price.len < MinProfileLen

\* C16: once the parameters are handled, num_days is the supplied value
\* clamped to [1, 30], the resolution is the member of {15, 30, 60}
\* nearest to the supplied value, and T = num_days * 24 * (60 / resolution)
\* is a positive integer.
C16_NearestResolution ==
    pc \in {"validated", "normalized"} =>
        /\ num_days_of(req) = Max(1, Min(30, req.num_days))
        /\ time_resolution_of(req) \in {15, 30, 60}
        /\ \A m \in {15, 30, 60} :
               Abs(time_resolution_of(req) - req.time_resolution_minutes)
                   <= Abs(m - req.time_resolution_minutes)
        /\ time_horizon_of(req)
               = num_days_of(req) * 24 * (60 \div time_resolution_of(req))
        /\ time_horizon_of(req) > 0

\* C17: a task that was ready when an optimization call began (a
\* websocket tick, another request) is served before that call's solve
\* has finished.
C17_ServedBeforeSolveFinishes ==
    \A c \in Clients :
        (handler[c] = "responded" /\ ready_at_begin[c]) => served_during[c]

\* C18: a run writes no process-wide mutable state.
C18_NoProcessWideWrites ==
    (\E c \in Clients : handler[c] # "absent") =>
        (environ = "unset" /\ rcParams = "default")

\* C19: a run that failed (validation error, non-optimal solve, any
\* other exception) is answered with exactly one object that has status
\* "error" and a message and no summary, plot or chart data; a response
\* that has a summary has status "success".
C19_OneStructuredError ==
    /\ Len(responses) <= 1
    /\ pc = "responded" =>
           /\ Len(responses) = 1
           /\ error.raised =>
                  /\ responses[1].status = "error"
                  /\ responses[1].message # <<>>
                  /\ ~responses[1].summary
                  /\ ~responses[1].plot_base64
                  /\ ~responses[1].chart_data
           /\ responses[1].summary => responses[1].status = "success"

\* A run that died of an exception other than ValueError, answered.
C19_CrashAnswered ==
    /\ pc = "responded"
    /\ error.raised
    /\ error.type = "ZeroDivisionError"
    /\ responses[1].status_code = 500
    /\ responses[1].message[1] = "Optimization failed: "

\* C20: with every other input fixed, a run with a larger grid_connection
\* reports no larger total cost: for each larger connection, some optimal
\* solution of the larger site reports at most what some optimal solution
\* of this site reports.
C20_CostMonotoneInGrid ==
    (pc = "built" /\ req \in GridSizeRequests) =>
        \A g \in GridSizes :
            g > req.grid_connection =>
                LeastReportedTotal([req EXCEPT !.grid_connection = g],
                                   time_horizon_of(req))
                    <= GreatestReportedTotal(req, time_horizon_of(req))

C22_TraceOfEveryStep ==
    pc = "done" =>
        /\ result.chart_data
        /\ result.chart_entries = time_horizon_of(req)

\* C23: the Objective the summary reports names the objective that was
\* minimised, cost or emissions, whatever objective_type the request
\* carries.
C23_ReportedObjectiveIsMinimised ==
    pc = "done" => result.summary.Objective = MinimisedObjective(req)

\* C24: in every optimal solution the fuel bound is tight at every t:
\* Fuel[t] = 0.18 * Diesel[t] + 48 * z_diesel[t], in both variants and
\* both objective modes.
C24_FuelBoundTight ==
    (pc = "built" /\ StorageIdle(req)) =>
        \A tt \in 0..(time_horizon_of(req) - 1) :
            \A v \in OptimalRows(req, tt) :
                v.F_diesel = FuelLowerBound(v.z_diesel, v.P_diesel)

\* C25: at every step of a solution the generator is either off with
\* Diesel[t] = 0 or on with 0.1 * diesel_capacity <= Diesel[t] <=
\* diesel_capacity.
C25_DieselSemiContinuous ==
    x.assigned =>
        \/ x.z_diesel = 0 /\ x.P_diesel = 0
        \/ /\ x.z_diesel = 1
           /\ x.P_diesel * 10 >= Max(0, req.diesel_capacity) * PS
           /\ x.P_diesel <= Max(0, req.diesel_capacity) * PS

\* An accepted solution whose last step runs the generator at its
\* minimum power.
C25_DieselAtMinimum ==
    /\ pc = "accepted"
    /\ req.diesel_capacity = 200
    /\ x.z_diesel = 1
    /\ x.P_diesel * 10 = req.diesel_capacity * PS

\* C26: the electrolyzer power of every timestep is the sum of its two
\* segments, the first at most 20 % and the second at most 80 % of the
\* capacity, and the second segment is used only when the first is full.
C26_SegmentsInOrder ==
    x.assigned =>
        LET cap == Max(0, req.electrolyzer_capacity) * PS
        IN  /\ x.P_elec = x.P_elec_s1 + x.P_elec_s2
            /\ 0 <= x.P_elec_s1 /\ x.P_elec_s1 * 100 <= cap * P_break1_percent
            /\ 0 <= x.P_elec_s2 /\ x.P_elec_s2 * 100 <= cap * (100 - P_break1_percent)
            /\ x.P_elec_s2 > 0 => x.P_elec_s1 * 100 = cap * P_break1_percent

\* An accepted solution whose last step runs the electrolyzer beyond its
\* first segment.
C26_SecondSegmentUsed ==
    /\ pc = "accepted"
    /\ x.P_elec_s2 > 0
    /\ x.P_elec_s1 * 100 = req.electrolyzer_capacity * PS * P_break1_percent

\* C27: with the cost objective, the total cost a run reports (before
\* rounding) is the value of the objective at the solution it returns:
\* step by step, the reported cost components add up to the objective's
\* term, in both variants and at every resolution.
C27_ReportedCostIsObjective ==
    (pc = "built" /\ MinimisedObjective(req) = "cost" /\ StorageIdle(req)) =>
        \A tt \in 0..(time_horizon_of(req) - 1) :
            \A v \in OptimalRows(req, tt) :
                v.objective_term = ReportedCost(req, tt, v)

\* C28: in every solution a single-load run returns, the import of each
\* step is the positive part of the grid power and at most the grid
\* connection, whatever the prices and in both objective modes.
C28_ImportIsPositivePart ==
    (pc = "built" /\ req.variant = "single" /\ StorageIdle(req)) =>
        \A tt \in 0..(time_horizon_of(req) - 1) :
            \A v \in OptimalRows(req, tt) :
                /\ v.P_grid_import = Max(0, v.P_grid)
                /\ v.P_grid_import <= grid_max_power_of(req) * PS

\* C29: the constraints of a single-load model always have a feasible
\* point: at every step the whole load and the whole PV output curtailed,
\* with grid, diesel, battery and hydrogen idle.  So no single-load run
\* ends with the status infeasible.
C29_SingleLoadFeasible ==
    (req.variant = "single" /\ model_built) =>
        /\ pc = "built" =>
               \A tt \in 0..(time_horizon_of(req) - 1) :
                   \E v \in SingleRows(req, tt, initial_battery_level(req),
                                       initial_h2_level(req)) :
                       /\ v.P_load_curt = LoadAt(1, tt)
                       /\ v.P_pv_used = 0 /\ v.P_solar_curt = SolarAvailable(tt)
                       /\ v.P_grid = 0 /\ v.P_grid_import = 0
                       /\ v.P_diesel = 0 /\ v.z_diesel = 0
                       /\ v.P_charge = 0 /\ v.P_discharge = 0
                       /\ v.P_elec = 0 /\ v.P_fc = 0
        /\ status # LpStatusInfeasible

\* A single-load run on a sunny PV site whose accepted solution ends on
\* the idle point: everything curtailed, nothing imported.
C29_IdlePointAccepted ==
    /\ pc = "accepted"
    /\ req.variant = "single"
    /\ req.solar_connection > 0
    /\ x.P_load_curt = LoadAt(1, t) /\ x.P_load_curt > 0
    /\ x.P_pv_used = 0 /\ x.P_grid = 0 /\ x.P_diesel = 0
    /\ x.P_charge = 0 /\ x.P_discharge = 0 /\ x.P_elec = 0 /\ x.P_fc = 0

\* C30: with strictly ordered penalties every optimal solution of the
\* multi-load variant curtails in priority order at each step: a stream
\* is curtailed only if every stream with a smaller penalty is curtailed
\* in full.
C30_CurtailInPriorityOrder ==
    (pc = "built" /\ req.variant = "multi" /\ StorageIdle(req)) =>
        \A tt \in 0..(time_horizon_of(req) - 1) :
            \A v \in OptimalRows(req, tt) :
                \A i \in dr_loads, j \in dr_loads :
                    (/\ Max(0, req.curtail_penalty[i - 2]) > Max(0, req.curtail_penalty[j - 2])
                     /\ v.P_curt[i] > 0)
                        => v.P_curt[j] = LoadAt(j, tt)

\* An accepted solution whose last step is optimal and sheds the two
\* cheaper streams in full while it serves the dearest one.
C30_TwoStreamsShed ==
    /\ pc = "accepted"
    /\ req.variant = "multi"
    /\ x \in OptimalRows(req, t)
    /\ x.P_curt[3] = 0 /\ LoadAt(3, t) > 0
    /\ x.P_curt[4] = LoadAt(4, t) /\ x.P_curt[4] > 0
    /\ x.P_curt[5] = LoadAt(5, t) /\ x.P_curt[5] > 0

====
